---- MODULE Spec2Model ----
(***************************************************************************)
(* BMAuth: the credential ceremony engine.                                 *)
(*                                                                         *)
(* The repository holds two implementations of the ceremonies:             *)
(*   - the "full" service: WebAuthnService + UserService behind the        *)
(*     /api/v1 endpoints, state in a relational store;                     *)
(*   - the "simple" bmauth package: route handlers over four in-memory     *)
(*     dictionaries, including the QR device-pairing flow.                 *)
(* A behaviour is a run of one of the two (variable app).  Every action   *)
(* is one whole request handler; the response of a handler is a function   *)
(* of the state and the request, written as an operator of the handler's   *)
(* name.  The specifications differ in the requests they draw and in the   *)
(* bounds they explore:                                                    *)
(*   Spec      both implementations, every ceremony, few failed logins;    *)
(*   SpecLock  the service's lockout policy, one identity, a finer clock;  *)
(*   SpecConc  the service's completions as interleaved statements;        *)
(*   SpecRace  interleaved registrations of different credentials;         *)
(*   SpecBM    the bmauth handlers;                                        *)
(*   SpecAudit the service's ceremonies while the writes of the security   *)
(*             log may fail (in the other specifications they succeed);    *)
(*   SpecRisk  the risk assessment of a credential, over every row.        *)
(*                                                                         *)
(* Time is counted in minutes.                                             *)
(***************************************************************************)
EXTENDS Integers, Sequences, FiniteSets, TLC

VARIABLES
    app,            \* "service" | "bmauth": which implementation runs
    now,            \* wall clock (datetime.utcnow / time.time), minutes
    users,          \* service: table users, keyed by username (= user id)
    credentials,    \* service: table webauthn_credentials, row id = index
    challenges,     \* service: table webauthn_challenges, a set of rows
    nextChallenge,  \* number of the next challenge value to be issued
    users_db,       \* bmauth: users_db, keyed by email
    challenges_db,  \* bmauth: challenges_db, email -> challenge value
    verification_pins,      \* bmauth: verification_pins, keyed by email
    add_device_sessions,    \* bmauth: add_device_sessions, keyed by session id
    nextSession,    \* number of the next pairing session id
    uses,           \* history: successful completions per challenge value
    streak,         \* history: consecutive failed authentications per user
    reqs,           \* service: the requests in progress, per worker
    issued,         \* history: purpose and time of issue of the challenge
                    \* bmauth holds for an email
    audit,          \* service: TRUE while the store accepts the rows of
                    \* security_logs; FALSE while writing one fails
    risk_row        \* service: the columns of one credential row that the
                    \* risk assessment reads, and its risk_score

svc == <<users, credentials, challenges>>
bm == <<users_db, challenges_db, verification_pins, add_device_sessions,
        nextSession>>
vars == <<app, now, svc, bm, nextChallenge, uses, streak, reqs, issued,
         audit, risk_row>>

---------------------------------------------------------------------------
(* Bounds of the model *)

MaxCounter == 1     \* largest signature counter an authenticator reports
\* Spec
MaxIssued == 3      \* challenges issued in one behaviour
MaxCreds == 2       \* credential rows
MaxUsage == 2       \* largest usage_count
MaxFailed == 1      \* largest failed_login_attempts
MaxTime == 30       \* last clock value
TickMinutes == 30   \* step of the clock
\* SpecLock
LockMaxIssued == 3
LockMaxCreds == 1
LockMaxUsage == 1
LockMaxFailed == 6
LockMaxTime == 45
LockTickMinutes == 15
\* SpecConc
ConcMaxIssued == 2
ConcMaxCreds == 2
ConcMaxUsage == 2
ConcMaxFailed == 1
\* SpecRace
RaceMaxIssued == 2
RaceMaxCreds == 2
\* SpecRisk
MaxDays == 9        \* largest age of a credential, in days
MaxRiskUsage == 6   \* largest usage_count
\* SpecAudit
AuditMaxIssued == 3
AuditMaxCreds == 2
AuditMaxUsage == 1
AuditMaxFailed == 2
\* SpecBM
BMMaxIssued == 3
MaxSessions == 2    \* pairing sessions created in one behaviour
BMMaxTime == 12
BMTickMinutes == 6

(* Program constants *)

ExpiresInMinutes == 5   \* expires_in_minutes=5
LockThreshold == 5      \* failed_login_attempts >= 5
LockMinutes == 30       \* timedelta(minutes=30)
WarnThreshold == 3      \* failed_login_attempts >= 3
RecentDays == 1         \* is_recent_registration(1)
WeekDays == 7           \* is_recent_registration(7)
FewUses == 5            \* usage_count < 5
MaxScore == 100         \* min(max(score, 0), 100)
SessionMinutes == 5     \* time.time() + 300
PinMinutes == 10        \* time.time() + 600
ResendMinutes == 1      \* time.time() - last_sent < 60
MaxPinAttempts == 3     \* pin_data["attempts"] >= 3
CeremonyMinutes == 1    \* bmauth: "timeout": 60000, announced with a challenge

None == -1              \* Python None in a timestamp column

Usernames == {"alice", "bob"}
Handles == {"alice", "ALICE", "bob"}      \* usernames as a client spells them
RawIds == {"k1", "k2"}                    \* raw credential ids
BadId == "!"                              \* an id that is not base64

\* str.lower()
Lower(h) == IF h = "ALICE" THEN "alice" ELSE h

NoRow == [id |-> 0, username |-> "", challenge_type |-> "",
          created_at |-> 0, expires_at |-> 0]

\* What the client sends to a completeX call, as far as the server can tell:
\* the raw credential id it names, whether the external verifier accepts it
\* against the challenge and key it is given, and the signature counter the
\* authenticator data carries.
Responses == [id : RawIds \cup {BadId}, verifies : BOOLEAN, count : 0..MaxCounter]

(* Responses of the handlers: the message of the ValueError / JSON error *)
Ok == "ok"
ErrNoChallenge == "Invalid or expired challenge"
ErrExpired == "Challenge expired"
ErrUser == "User not found or cannot authenticate"
ErrUserNotFound == "User not found"
ErrFormat == "Invalid credential ID format"
ErrCredential == "Invalid credential"
ErrAuthFailed == "Authentication failed"
ErrRegFailed == "Registration failed"
ErrDuplicate == "Registration failed: Credential already registered"
ErrNoCredentials == "No active credentials found"
ErrHasAccount == "User already has an account with biometric credentials"
ErrCredentialNotFound == "Credential not found"
ErrServer == "Internal Server Error"    \* an unhandled exception: HTTP 500

---------------------------------------------------------------------------
(* Models: User, WebAuthnChallenge, WebAuthnCredential *)

\* User.is_locked
is_locked(user) ==
    IF user.locked_until = None THEN FALSE ELSE now < user.locked_until

\* A variant that does not look at the lock
ActiveOnly(user) == user.is_active

\* User.can_authenticate
can_authenticate(user) == user.is_active /\ ~is_locked(user)

\* WebAuthnChallenge.is_expired
is_expired(ch) == now > ch.expires_at

\* WebAuthnChallenge.create_challenge
create_challenge(value, username, challenge_type) ==
    [id |-> value, username |-> username, challenge_type |-> challenge_type,
     created_at |-> now, expires_at |-> now + ExpiresInMinutes]

\* select(WebAuthnChallengeModel).where(username, challenge_type)
\*     .order_by(created_at.desc()).limit(1)
\* The rows the query may return: a row of the greatest created_at (the
\* order among equal timestamps is the store's), or NoRow when none matches.
MostRecent(username, challenge_type) ==
    LET match == {c \in challenges : /\ c.username = username
                                     /\ c.challenge_type = challenge_type}
        top == {c \in match : \A d \in match : d.created_at <= c.created_at}
    IN  IF match = {} THEN {NoRow} ELSE top

\* WebAuthnService.get_user_by_username / UserService.get_user_by_username
UserExists(h) == Lower(h) \in DOMAIN users

\* WebAuthnService.get_user_credentials
get_user_credentials(user_id, active_only) ==
    {i \in 1..Len(credentials) :
        /\ credentials[i].user_id = user_id
        /\ (active_only => credentials[i].is_active)}

\* WebAuthnService.get_credential_by_id: the rows with that raw id
get_credential_by_id(raw) ==
    {i \in 1..Len(credentials) : credentials[i].credential_id = raw}

\* The columns calculate_risk_score reads, as a row starts: the column
\* defaults and transports="internal" of complete_registration
NewRiskRow == [has_created_at |-> TRUE, days |-> 0, usage_count |-> 0,
               transports |-> {"internal"}, backup_eligible |-> FALSE,
               risk_score |-> 0]

\* WebAuthnCredential.is_recent_registration: days is
\* (utcnow() - created_at).days
is_recent_registration(row, days) == row.has_created_at /\ row.days <= days

\* A variant without the clamp
Unclamped(score) == score

\* min(max(score, 0), 100)
Clamp(score) == IF score < 0 THEN 0
                ELSE IF score > MaxScore THEN MaxScore
                ELSE score

\* WebAuthnCredential.calculate_risk_score
calculate_risk_score(row) ==
    LET age == IF is_recent_registration(row, RecentDays) THEN 20
               ELSE IF is_recent_registration(row, WeekDays) THEN 10
               ELSE 0
        usage == IF row.usage_count = 0 THEN 15
                 ELSE IF row.usage_count < FewUses THEN 5
                 ELSE 0
        usb == IF "usb" \in row.transports THEN 0 - 5 ELSE 0
        nfc == IF "nfc" \in row.transports THEN 5 ELSE 0
        backup == IF ~row.backup_eligible THEN 10 ELSE 0
    IN  Clamp(age + usage + usb + nfc + backup)

\* complete_authentication on the row: update_usage() and
\* credential.risk_score = credential.calculate_risk_score()
assess_risk ==
    /\ app = "service"
    /\ LET used == [risk_row EXCEPT !.usage_count = @ + 1] IN
       risk_row' = [used EXCEPT !.risk_score = calculate_risk_score(used)]
    /\ UNCHANGED <<app, audit, reqs, issued, now, svc, bm, nextChallenge, uses,
                   streak>>

\* A day passes in the life of the row
age_row ==
    /\ risk_row' = [risk_row EXCEPT !.days = @ + 1]
    /\ UNCHANGED <<app, audit, reqs, issued, now, svc, bm, nextChallenge, uses,
                   streak>>

---------------------------------------------------------------------------
(* UserService *)

\* A variant that records the successes only
RecordSuccessOnly(user, success) ==
    IF success
    THEN [user EXCEPT !.failed_login_attempts = 0, !.locked_until = None]
    ELSE user

\* A variant that counts the failures and never locks the account
RecordWithoutLock(user, success) ==
    IF success
    THEN [user EXCEPT !.failed_login_attempts = 0, !.locked_until = None]
    ELSE [user EXCEPT !.failed_login_attempts = @ + 1]

\* A variant that sets the lock time only on an account that has none
RecordLockOnce(user, success) ==
    IF success
    THEN [user EXCEPT !.failed_login_attempts = 0, !.locked_until = None]
    ELSE LET n == user.failed_login_attempts + 1
         IN  IF n >= LockThreshold /\ user.locked_until = None
             THEN [user EXCEPT !.failed_login_attempts = n,
                               !.locked_until = now + LockMinutes]
             ELSE [user EXCEPT !.failed_login_attempts = n]

\* A variant in which a lock that has elapsed restarts the count
RecordAfterElapsed(user, success) ==
    IF success
    THEN [user EXCEPT !.failed_login_attempts = 0, !.locked_until = None]
    ELSE LET elapsed == user.locked_until # None /\ now >= user.locked_until
             n == IF elapsed THEN 1 ELSE user.failed_login_attempts + 1
         IN  IF n >= LockThreshold
             THEN [user EXCEPT !.failed_login_attempts = n,
                               !.locked_until = now + LockMinutes]
             ELSE IF elapsed
                  THEN [user EXCEPT !.failed_login_attempts = n,
                                    !.locked_until = None]
             ELSE [user EXCEPT !.failed_login_attempts = n]

\* UserService.record_login_attempt
record_login_attempt(user, success) ==
    IF success
    THEN [user EXCEPT !.failed_login_attempts = 0, !.locked_until = None]
    ELSE LET n == user.failed_login_attempts + 1
         IN  IF n >= LockThreshold
             THEN [user EXCEPT !.failed_login_attempts = n,
                               !.locked_until = now + LockMinutes]
             ELSE [user EXCEPT !.failed_login_attempts = n]

\* SecurityLog.create_log(event_type, ..., risk_level="low")
Event(event_type, risk_level) ==
    [event_type |-> event_type, risk_level |-> risk_level]

\* A variant without the branch for three failures or more
LogWithoutWarning(user, success) ==
    IF success THEN Event("login_success", "low")
    ELSE IF user.failed_login_attempts + 1 >= LockThreshold
         THEN Event("account_locked", "high")
    ELSE Event("login_failed", "low")

\* UserService.record_login_attempt: the security log row it adds
login_attempt_log(user, success) ==
    IF success THEN Event("login_success", "low")
    ELSE LET n == user.failed_login_attempts + 1
         IN  IF n >= LockThreshold THEN Event("account_locked", "high")
             ELSE IF n >= WarnThreshold
                  THEN Event("multiple_failed_attempts", "medium")
             ELSE Event("login_failed", "low")

\* A variant that lifts the lock and keeps the count
ClearLockOnly(user) == [user EXCEPT !.locked_until = None]

\* UserService.unlock_user
unlock_user(user) ==
    [user EXCEPT !.locked_until = None, !.failed_login_attempts = 0]

\* UserService.create_user: the columns' defaults
NewUser == [is_active |-> TRUE, failed_login_attempts |-> 0,
            locked_until |-> None]

---------------------------------------------------------------------------
(* WebAuthnService and the /api/v1 endpoints: one action per request *)

\* history: one more successful completion against challenge value c
Used(c) == IF c \in DOMAIN uses THEN [uses EXCEPT ![c] = @ + 1]
           ELSE uses @@ (c :> 1)

\* WebAuthnService.start_registration: the challenge row it stores
start_registration(username) ==
    /\ challenges' = challenges \cup
           {create_challenge(nextChallenge, username, "registration")}
    /\ nextChallenge' = nextChallenge + 1

\* begin_webauthn_registration: the response to POST /register/begin, given
\* whether the store accepts the security log rows.  create_user and
\* start_registration add a log row and commit with no handler around it:
\* a commit that fails raises through the endpoint.
BeginRegistration(h, logged) ==
    IF UserExists(h) /\ get_user_credentials(Lower(h), FALSE) # {}
    THEN ErrHasAccount
    ELSE IF ~logged THEN ErrServer
    ELSE Ok

begin_registration(h) == BeginRegistration(h, audit)

\* POST /register/begin: begin_webauthn_registration, which creates the user
\* when there is none and then calls WebAuthnService.start_registration.
\* create_user commits the user and its log row together; start_registration
\* commits the challenge first and the log row after it.
begin_webauthn_registration(h) ==
    /\ app = "service"
    /\ IF begin_registration(h) = Ok
       THEN /\ users' = IF UserExists(h) THEN users
                        ELSE users @@ (Lower(h) :> NewUser)
            /\ start_registration(Lower(h))
       ELSE IF begin_registration(h) = ErrServer /\ UserExists(h)
       THEN /\ users' = users
            /\ start_registration(Lower(h))
       ELSE UNCHANGED <<users, challenges, nextChallenge>>
    /\ UNCHANGED <<app, audit, risk_row, reqs, issued, now, credentials, uses, streak, bm>>

\* A variant without the unique constraint
NoUniqueConstraint(raw) == FALSE

\* The unique=True constraint on webauthn_credentials.credential_id: the
\* store refuses (IntegrityError) a row whose raw id is already there
UniqueViolation(raw) == get_credential_by_id(raw) # {}

\* WebAuthnService.complete_registration: what the call raises or returns,
\* given the challenge row its query returned and whether the store accepts
\* the security log rows.  Inside the try block the credential and its log
\* row are one commit, and the except block commits a log row before it
\* deletes the challenge and raises ValueError: when that commit fails the
\* exception leaves the except block and the endpoint does not catch it.
CompleteRegistration(h, resp, ch, logged) ==
    IF ch = NoRow THEN ErrNoChallenge
    ELSE IF is_expired(ch) THEN ErrExpired
    ELSE IF ~UserExists(h) THEN ErrUserNotFound
    ELSE IF ~logged THEN ErrServer
    ELSE IF ~resp.verifies THEN ErrRegFailed
    ELSE IF get_credential_by_id(resp.id) # {} THEN ErrDuplicate
    ELSE IF UniqueViolation(resp.id) THEN ErrRegFailed
    ELSE Ok

complete_registration(h, resp, ch) == CompleteRegistration(h, resp, ch, audit)

\* The outcomes of complete_registration that delete the challenge row
RegistrationDeletesChallenge(res) ==
    res \in {ErrExpired, ErrRegFailed, ErrDuplicate, Ok}

\* WebAuthnCredential(...) as complete_registration builds it
NewCredential(user_id, resp) ==
    [user_id |-> user_id, credential_id |-> resp.id, sign_count |-> resp.count,
     usage_count |-> 0, is_active |-> TRUE]

\* POST /register/complete: complete_webauthn_registration
complete_webauthn_registration(h, resp) ==
    /\ app = "service"
    /\ resp.id \in RawIds
    /\ \E ch \in MostRecent(h, "registration") :
        LET res == complete_registration(h, resp, ch) IN
        /\ credentials' = IF res = Ok
                          THEN Append(credentials, NewCredential(Lower(h), resp))
                          ELSE credentials
        /\ challenges' = IF RegistrationDeletesChallenge(res)
                         THEN challenges \ {ch} ELSE challenges
        /\ uses' = IF res = Ok THEN Used(ch.id) ELSE uses
    /\ UNCHANGED <<app, audit, risk_row, reqs, issued, now, users, nextChallenge, streak, bm>>

\* A variant without the test for active credentials
StartWithoutCredentials(h) ==
    IF ~UserExists(h) THEN ErrUser
    ELSE IF ~can_authenticate(users[Lower(h)]) THEN ErrUser
    ELSE Ok

\* WebAuthnService.start_authentication: what the call raises or returns
start_authentication(h) ==
    IF ~UserExists(h) THEN ErrUser
    ELSE IF ~can_authenticate(users[Lower(h)]) THEN ErrUser
    ELSE IF get_user_credentials(Lower(h), TRUE) = {} THEN ErrNoCredentials
    ELSE Ok

\* POST /authenticate/begin: begin_webauthn_authentication
begin_webauthn_authentication(h) ==
    /\ app = "service"
    /\ IF start_authentication(h) = Ok
       THEN /\ challenges' = challenges \cup
                   {create_challenge(nextChallenge, Lower(h), "authentication")}
            /\ nextChallenge' = nextChallenge + 1
       ELSE UNCHANGED <<challenges, nextChallenge>>
    /\ UNCHANGED <<app, audit, risk_row, reqs, issued, now, users, credentials, uses, streak, bm>>

\* A variant that only tests that the credential row exists
UnknownCredential(rows, user_id) == rows = {}

\* complete_authentication's test of the credential row it looked up:
\* not credential or credential.user_id != user.id or not credential.is_active
InvalidCredential(rows, user_id) ==
    \/ rows = {}
    \/ \E i \in rows : \/ credentials[i].user_id # user_id
                       \/ ~credentials[i].is_active

\* WebAuthnService.complete_authentication: what the call raises or returns,
\* given the challenge row its query returned
complete_authentication(h, resp, ch) ==
    IF ch = NoRow THEN ErrNoChallenge
    ELSE IF is_expired(ch) THEN ErrExpired
    ELSE IF ~UserExists(h) THEN ErrUser
    ELSE IF ~can_authenticate(users[Lower(h)]) THEN ErrUser
    ELSE IF resp.id = BadId THEN ErrFormat
    ELSE IF InvalidCredential(get_credential_by_id(resp.id), Lower(h))
         THEN ErrCredential
    ELSE IF ~resp.verifies THEN ErrAuthFailed
    ELSE Ok

\* A variant in which a successful authentication leaves its challenge stored
AuthenticationKeepsUsedChallenge(res) == res \in {ErrExpired, ErrAuthFailed}

\* The outcomes of complete_authentication that delete the challenge row
AuthenticationDeletesChallenge(res) == res \in {ErrExpired, ErrAuthFailed, Ok}

\* A variant that stores the counter and does not count the use
CounterOnly(cred, new_sign_count) == [cred EXCEPT !.sign_count = new_sign_count]

\* The credential row after a verified assertion: update_usage() and
\* credential.sign_count = verification.new_sign_count
UpdatedCredential(cred, new_sign_count) ==
    [cred EXCEPT !.usage_count = @ + 1, !.sign_count = new_sign_count]

\* complete_webauthn_authentication: the response to POST
\* /authenticate/complete, given whether the store accepts the security log
\* rows.  After a success record_login_attempt is called inside the try
\* block, which catches ValueError only; after a ValueError it is called
\* under "except Exception: pass".
CompleteAuthentication(h, resp, ch, logged) ==
    IF complete_authentication(h, resp, ch) = Ok /\ ~logged THEN ErrServer
    ELSE complete_authentication(h, resp, ch)

\* POST /authenticate/complete: complete_webauthn_authentication, which
\* records the login attempt on the user after the service call.
\* record_login_attempt commits the user's fields and the log row together.
complete_webauthn_authentication(h, resp) ==
    /\ app = "service"
    /\ \E ch \in MostRecent(h, "authentication") :
        LET res == complete_authentication(h, resp, ch)
            u == Lower(h)
            row == CHOOSE i \in get_credential_by_id(resp.id) : TRUE
        IN
        /\ credentials' =
               IF res = Ok
               THEN [credentials EXCEPT
                       ![row] = UpdatedCredential(@, resp.count)]
               ELSE credentials
        /\ challenges' = IF AuthenticationDeletesChallenge(res)
                         THEN challenges \ {ch} ELSE challenges
        /\ users' = IF UserExists(h) /\ audit
                    THEN [users EXCEPT ![u] = record_login_attempt(@, res = Ok)]
                    ELSE users
        /\ uses' = IF res = Ok THEN Used(ch.id) ELSE uses
        /\ streak' = IF ~UserExists(h) THEN streak
                     ELSE IF res = Ok THEN [streak EXCEPT ![u] = 0]
                     ELSE [streak EXCEPT ![u] = @ + 1]
    /\ UNCHANGED <<app, audit, risk_row, reqs, issued, now, nextChallenge, bm>>

\* A variant that flips the active flag
Toggled(cred) == [cred EXCEPT !.is_active = ~@]

\* WebAuthnService.disable_credential: the credential row after
\* credential.is_active = False
Disabled(cred) == [cred EXCEPT !.is_active = FALSE]

\* disable_credential: the response to DELETE /credentials/{credential_id}
\* for the signed-in active user u.  The service selects the row by its id
\* and user_id, whatever its active flag.
DisableCredential(u, id) ==
    IF id \notin get_user_credentials(u, FALSE) THEN ErrCredentialNotFound
    ELSE IF ~audit THEN ErrServer
    ELSE Ok

\* DELETE /credentials/{credential_id}: disable_credential, for the signed-in
\* active user u and the credential row id
disable_credential(u, id) ==
    /\ app = "service"
    /\ u \in DOMAIN users /\ users[u].is_active
    /\ credentials' = IF DisableCredential(u, id) = Ok
                      THEN [credentials EXCEPT ![id] = Disabled(@)]
                      ELSE credentials
    /\ UNCHANGED <<app, audit, risk_row, reqs, issued, now, users, challenges, nextChallenge, uses, streak, bm>>

\* POST /users/unlock: unlock_account, for the signed-in active user u
unlock_account(u) ==
    /\ app = "service"
    /\ u \in DOMAIN users /\ users[u].is_active
    /\ users' = IF audit THEN [users EXCEPT ![u] = unlock_user(@)] ELSE users
    /\ streak' = IF audit THEN [streak EXCEPT ![u] = 0] ELSE streak
    /\ UNCHANGED <<app, audit, risk_row, reqs, issued, now, credentials, challenges, nextChallenge, uses, bm>>

\* DELETE /users/me: UserService.deactivate_user, for the signed-in active user
deactivate_account(u) ==
    /\ app = "service"
    /\ u \in DOMAIN users /\ users[u].is_active
    /\ users' = IF audit THEN [users EXCEPT ![u].is_active = FALSE] ELSE users
    /\ UNCHANGED <<app, audit, risk_row, reqs, issued, now, credentials, challenges, nextChallenge, uses,
                   streak, bm>>

\* WebAuthnService.cleanup_expired_challenges
cleanup_expired_challenges ==
    /\ app = "service"
    /\ challenges' = {c \in challenges : ~(c.expires_at < now)}
    /\ UNCHANGED <<app, audit, risk_row, reqs, issued, now, users, credentials, nextChallenge, uses, streak,
                   bm>>

\* The store starts (ok) or stops (~ok) accepting the rows of security_logs
SecurityLogStore(ok) ==
    /\ app = "service"
    /\ audit' = ok
    /\ UNCHANGED <<app, risk_row, reqs, issued, now, svc, bm, nextChallenge, uses, streak>>

\* The clock advances by d minutes
Tick(d) ==
    /\ now' = now + d
    /\ UNCHANGED <<app, audit, risk_row, reqs, issued, svc, bm, nextChallenge, uses, streak>>

---------------------------------------------------------------------------
(* bmauth: the route handlers of BMAuth._register_routes *)

Emails == {"alice", "bob"}
UserAgents == {"ua1", "ua2"}        \* User-Agent headers
Pins == {"p1", "p2"}                \* six-digit PINs

ErrInvalidSession == "Invalid session"
ErrDevice == "Device not registered"
ErrNotVerified == "Email not verified"
ErrSessionExpired == "Session expired"
ErrPin == "Invalid or expired PIN"
ErrWait == "Please wait before requesting a new PIN"
ErrVerified == "Email already verified"
AlreadyVerified == "success: Email already verified"
ErrKey == "KeyError"                \* an unhandled KeyError: HTTP 500
Unregistered == "registered: False"
Pending == "pending"
Completed == "completed"

\* dict[k] = v and del dict[k]
Put(d, k, v) == [x \in DOMAIN d \cup {k} |-> IF x = k THEN v ELSE d[x]]
Del(d, k) == [x \in DOMAIN d \ {k} |-> d[x]]

\* hashlib.sha256(f"{email}:{user_agent}").hexdigest()
DeviceId(email, ua) == <<email, ua>>
NoDevice == <<"", "">>              \* new_device_id: None

\* The device entry register_complete and join_device_complete store;
\* device_name is detect_device_info(user_agent)["device_name"]
Device(ua, cred) == [credential_id |-> cred, device_name |-> ua]

\* The entry of verification_pins for a fresh PIN
NewPin(pin) == [pin |-> pin, expires_at |-> now + PinMinutes, attempts |-> 0,
                last_sent |-> now]

\* What "challenges_db[email] = challenge_b64" adds to the history
Issue(purpose) == [purpose |-> purpose, at |-> now]

\* POST /auth/register/begin
register_begin(email) ==
    /\ app = "bmauth"
    /\ challenges_db' = Put(challenges_db, email, nextChallenge)
    /\ nextChallenge' = nextChallenge + 1
    /\ issued' = Put(issued, email, Issue("registration"))
    /\ UNCHANGED <<app, audit, risk_row, reqs, now, svc, users_db, verification_pins,
                   add_device_sessions, nextSession, uses, streak>>

\* register_complete: the response to POST /auth/register/complete
RegisterComplete(email) ==
    IF email \notin DOMAIN challenges_db THEN ErrInvalidSession ELSE Ok

\* POST /auth/register/complete
register_complete(email, ua, cred) ==
    /\ app = "bmauth"
    /\ IF RegisterComplete(email) = Ok
       THEN /\ users_db' = Put(users_db, email,
                   [email_verified |-> FALSE,
                    devices |-> (DeviceId(email, ua) :> Device(ua, cred))])
            /\ challenges_db' = Del(challenges_db, email)
            /\ \E pin \in Pins :
                  verification_pins' = Put(verification_pins, email, NewPin(pin))
            /\ uses' = Used(challenges_db[email])
            /\ issued' = Del(issued, email)
       ELSE UNCHANGED <<users_db, challenges_db, verification_pins, uses,
                        issued>>
    /\ UNCHANGED <<app, audit, risk_row, reqs, now, svc, add_device_sessions, nextSession,
                   nextChallenge, streak>>

\* login_begin: the response to POST /auth/login/begin
LoginBegin(email, ua) ==
    IF email \notin DOMAIN users_db THEN ErrUserNotFound
    ELSE IF DeviceId(email, ua) \notin DOMAIN users_db[email].devices
         THEN Unregistered
    ELSE Ok

\* POST /auth/login/begin
login_begin(email, ua) ==
    /\ app = "bmauth"
    /\ IF LoginBegin(email, ua) = Ok
       THEN /\ challenges_db' = Put(challenges_db, email, nextChallenge)
            /\ nextChallenge' = nextChallenge + 1
            /\ issued' = Put(issued, email, Issue("authentication"))
       ELSE UNCHANGED <<challenges_db, nextChallenge, issued>>
    /\ UNCHANGED <<app, audit, risk_row, reqs, now, svc, users_db, verification_pins,
                   add_device_sessions, nextSession, uses, streak>>

\* A variant without the test of the verified e-mail address
LoginUnverifiedEmail(email, ua, cred) ==
    IF email \notin DOMAIN challenges_db THEN ErrInvalidSession
    ELSE IF email \notin DOMAIN users_db THEN ErrUserNotFound
    ELSE IF DeviceId(email, ua) \notin DOMAIN users_db[email].devices
         THEN ErrDevice
    ELSE IF users_db[email].devices[DeviceId(email, ua)].credential_id # cred
         THEN ErrCredential
    ELSE Ok

\* login_complete: the response to POST /auth/login/complete
LoginComplete(email, ua, cred) ==
    IF email \notin DOMAIN challenges_db THEN ErrInvalidSession
    ELSE IF email \notin DOMAIN users_db THEN ErrUserNotFound
    ELSE IF DeviceId(email, ua) \notin DOMAIN users_db[email].devices
         THEN ErrDevice
    ELSE IF users_db[email].devices[DeviceId(email, ua)].credential_id # cred
         THEN ErrCredential
    ELSE IF ~users_db[email].email_verified THEN ErrNotVerified
    ELSE Ok

\* The outcomes of login_complete that reach "del challenges_db[email]"
LoginDeletesChallenge(res) == res \in {ErrNotVerified, Ok}

\* A variant that creates the session already completed
SessionBornCompleted(email) ==
    [email |-> email, expires_at |-> now + SessionMinutes,
     status |-> Completed, new_device_id |-> NoDevice]

\* The pairing session login_complete creates
NewSession(email) == [email |-> email, expires_at |-> now + SessionMinutes,
                      status |-> Pending, new_device_id |-> NoDevice]

\* POST /auth/login/complete
login_complete(email, ua, cred) ==
    /\ app = "bmauth"
    /\ LET res == LoginComplete(email, ua, cred) IN
       /\ challenges_db' = IF LoginDeletesChallenge(res)
                           THEN Del(challenges_db, email) ELSE challenges_db
       /\ issued' = IF LoginDeletesChallenge(res)
                    THEN Del(issued, email) ELSE issued
       /\ IF res = Ok
          THEN /\ add_device_sessions' =
                     Put(add_device_sessions, nextSession, NewSession(email))
               /\ nextSession' = nextSession + 1
               /\ uses' = Used(challenges_db[email])
          ELSE UNCHANGED <<add_device_sessions, nextSession, uses>>
    /\ UNCHANGED <<app, audit, risk_row, reqs, now, svc, users_db, verification_pins, nextChallenge,
                   streak>>

\* A variant without the limit on the attempts
PinValidUnlimited(email, pin) ==
    /\ email \in DOMAIN verification_pins
    /\ ~(now > verification_pins[email].expires_at)
    /\ verification_pins[email].pin = pin

\* BMAuth._is_pin_valid: the value it returns
is_pin_valid(email, pin) ==
    /\ email \in DOMAIN verification_pins
    /\ ~(now > verification_pins[email].expires_at)
    /\ ~(verification_pins[email].attempts >= MaxPinAttempts)
    /\ verification_pins[email].pin = pin

\* BMAuth._is_pin_valid: verification_pins after the call
pins_after(email, pin) ==
    IF email \notin DOMAIN verification_pins THEN verification_pins
    ELSE IF now > verification_pins[email].expires_at
         THEN Del(verification_pins, email)
    ELSE IF verification_pins[email].attempts >= MaxPinAttempts
         THEN verification_pins
    ELSE IF verification_pins[email].pin = pin
         THEN Del(verification_pins, email)
    ELSE [verification_pins EXCEPT ![email].attempts = @ + 1]

\* A variant that does not validate the PIN
VerifyAnyPin(email, pin) ==
    IF email \notin DOMAIN users_db THEN ErrUserNotFound
    ELSE IF users_db[email].email_verified THEN AlreadyVerified
    ELSE Ok

\* verify_email: the response to POST /auth/verify-email
VerifyEmail(email, pin) ==
    IF email \notin DOMAIN users_db THEN ErrUserNotFound
    ELSE IF users_db[email].email_verified THEN AlreadyVerified
    ELSE IF ~is_pin_valid(email, pin) THEN ErrPin
    ELSE Ok

\* POST /auth/verify-email
verify_email(email, pin) ==
    /\ app = "bmauth"
    /\ LET res == VerifyEmail(email, pin) IN
       /\ verification_pins' = IF res \in {ErrPin, Ok}
                               THEN pins_after(email, pin)
                               ELSE verification_pins
       /\ users_db' = IF res = Ok
                      THEN [users_db EXCEPT ![email].email_verified = TRUE]
                      ELSE users_db
    /\ UNCHANGED <<app, audit, risk_row, reqs, issued, now, svc, challenges_db, add_device_sessions,
                   nextSession, nextChallenge, uses, streak>>

\* resend_pin: the response to POST /auth/resend-pin
ResendPin(email) ==
    IF email \notin DOMAIN users_db THEN ErrUserNotFound
    ELSE IF users_db[email].email_verified THEN ErrVerified
    ELSE IF /\ email \in DOMAIN verification_pins
            /\ now - verification_pins[email].last_sent < ResendMinutes
         THEN ErrWait
    ELSE Ok

\* POST /auth/resend-pin
resend_pin(email) ==
    /\ app = "bmauth"
    /\ IF ResendPin(email) = Ok
       THEN \E pin \in Pins :
               verification_pins' = Put(verification_pins, email, NewPin(pin))
       ELSE UNCHANGED verification_pins
    /\ UNCHANGED <<app, audit, risk_row, reqs, issued, now, svc, users_db, challenges_db,
                   add_device_sessions, nextSession, nextChallenge, uses,
                   streak>>

\* A variant that answers from the stored status without the expiry check
PollStoredStatus(sid) ==
    IF sid \notin DOMAIN add_device_sessions THEN ErrInvalidSession
    ELSE LET session == add_device_sessions[sid] IN
         IF session.status = Completed
         THEN IF session.new_device_id \in
                     DOMAIN users_db[session.email].devices
              THEN Completed ELSE ErrKey
         ELSE Pending

\* poll_device_status: the response to GET /auth/device/poll/{session_id}
PollDeviceStatus(sid) ==
    IF sid \notin DOMAIN add_device_sessions THEN ErrInvalidSession
    ELSE LET session == add_device_sessions[sid] IN
         IF now > session.expires_at THEN ErrSessionExpired
         ELSE IF session.status = Completed
              THEN IF session.new_device_id \in
                          DOMAIN users_db[session.email].devices
                   THEN Completed ELSE ErrKey
         ELSE Pending

\* GET /auth/device/poll/{session_id}
poll_device_status(sid) ==
    /\ app = "bmauth"
    /\ add_device_sessions' = IF PollDeviceStatus(sid) = ErrSessionExpired
                              THEN Del(add_device_sessions, sid)
                              ELSE add_device_sessions
    /\ UNCHANGED <<app, audit, risk_row, reqs, issued, now, svc, users_db, challenges_db, verification_pins,
                   nextSession, nextChallenge, uses, streak>>

\* join_device_begin: the response to POST /auth/device/join/begin/{session_id}
JoinDeviceBegin(sid) ==
    IF sid \notin DOMAIN add_device_sessions THEN ErrInvalidSession ELSE Ok

\* POST /auth/device/join/begin/{session_id}
join_device_begin(sid) ==
    /\ app = "bmauth"
    /\ IF JoinDeviceBegin(sid) = Ok
       THEN /\ challenges_db' = Put(challenges_db,
                                   add_device_sessions[sid].email, nextChallenge)
            /\ nextChallenge' = nextChallenge + 1
            /\ issued' = Put(issued, add_device_sessions[sid].email,
                             Issue("join"))
       ELSE UNCHANGED <<challenges_db, nextChallenge, issued>>
    /\ UNCHANGED <<app, audit, risk_row, reqs, now, svc, users_db, verification_pins,
                   add_device_sessions, nextSession, uses, streak>>

\* join_device_complete: the response to POST /auth/device/join/complete
JoinDeviceComplete(sid) ==
    IF sid \notin DOMAIN add_device_sessions THEN ErrInvalidSession
    ELSE IF add_device_sessions[sid].email \notin DOMAIN users_db THEN ErrKey
    ELSE Ok

\* POST /auth/device/join/complete
join_device_complete(sid, ua, cred) ==
    /\ app = "bmauth"
    /\ IF JoinDeviceComplete(sid) = Ok
       THEN LET email == add_device_sessions[sid].email
                id == DeviceId(email, ua)
            IN  /\ users_db' = [users_db EXCEPT ![email].devices =
                                   Put(@, id, Device(ua, cred))]
                /\ add_device_sessions' =
                       [add_device_sessions EXCEPT
                          ![sid].status = Completed,
                          ![sid].new_device_id = id]
       ELSE UNCHANGED <<users_db, add_device_sessions>>
    /\ UNCHANGED <<app, audit, risk_row, reqs, issued, now, svc, challenges_db, verification_pins,
                   nextSession, nextChallenge, uses, streak>>

---------------------------------------------------------------------------
(* The service under concurrent requests.  Every request runs in its own
   AsyncSession (get_db), so a handler is a sequence of
   statements against the shared database, one step per awaited statement;
   between two steps of one request any step of another may run.  A row a
   request has selected is its session's copy of that row: the session is
   made with expire_on_commit=False, so the copy keeps the values it was
   loaded with until the request ends, and a commit writes the columns the
   request has changed on its copy.  The steps are those of a run in which
   the store accepts the security log rows. *)

Workers == {1, 2}

NoResp == [id |-> "", verifies |-> FALSE, count |-> 0]
NoCred == [user_id |-> "", credential_id |-> "", sign_count |-> 0,
           usage_count |-> 0, is_active |-> FALSE]
NoUser == [is_active |-> FALSE, failed_login_attempts |-> None,
           locked_until |-> None]       \* no User object in the session
Idle == [pc |-> "idle", op |-> "", h |-> "", resp |-> NoResp, ch |-> NoRow,
         row |-> 0, cred |-> NoCred, result |-> "", user |-> NoUser]

\* Where a request goes when the service call returns or raises:
\* complete_authentication's caller goes on to record_login_attempt, after
\* get_user_by_username when the session holds no User object yet;
\* complete_registration's caller replies
After(op, user) ==
    IF op # "authentication" THEN "reply"
    ELSE IF user = NoUser THEN "select_record"
    ELSE "record"

\* The handler returns or raises
Return(w, op, res) ==
    [reqs[w] EXCEPT !.pc = After(op, reqs[w].user), !.result = res]

\* The row after the UPDATE a commit issues: the columns whose value on
\* the session's copy has changed since it was loaded
Written(stored, copy, new) ==
    [f \in DOMAIN stored |-> IF new[f] # copy[f] THEN new[f] ELSE stored[f]]

\* select(WebAuthnChallenge) ... order_by(created_at.desc()); an expired row
\* is deleted by the same request before it raises
select_challenge(w, op, h, resp) ==
    /\ app = "service"
    /\ reqs[w].pc = "idle"
    /\ \E ch \in MostRecent(h, op) :
        LET r == [Idle EXCEPT !.op = op, !.h = h, !.resp = resp, !.ch = ch] IN
        /\ reqs' = [reqs EXCEPT ![w] =
              IF ch = NoRow
              THEN [r EXCEPT !.result = ErrNoChallenge,
                             !.pc = After(op, NoUser)]
              ELSE IF is_expired(ch)
              THEN [r EXCEPT !.result = ErrExpired,
                             !.pc = After(op, NoUser)]
              ELSE [r EXCEPT !.pc = "select_user"]]
        /\ challenges' = IF ch # NoRow /\ is_expired(ch)
                         THEN challenges \ {ch} ELSE challenges
    /\ UNCHANGED <<app, audit, risk_row, issued, now, users, credentials, bm, nextChallenge, uses,
                   streak>>

\* get_user_by_username and the check on the user that follows it
select_user(w) ==
    /\ reqs[w].pc = "select_user"
    /\ LET r == reqs[w]
           missing == IF r.op = "authentication"
                      THEN \/ ~UserExists(r.h)
                           \/ ~can_authenticate(users[Lower(r.h)])
                      ELSE ~UserExists(r.h)
           user == IF UserExists(r.h) THEN users[Lower(r.h)] ELSE NoUser
       IN reqs' = [reqs EXCEPT ![w] =
              IF missing
              THEN [r EXCEPT !.pc = After(r.op, user), !.user = user,
                             !.result = IF r.op = "authentication"
                                        THEN ErrUser ELSE ErrUserNotFound]
              ELSE [r EXCEPT !.pc = "select_credential", !.user = user]]
    /\ UNCHANGED <<app, audit, risk_row, issued, now, svc, bm, nextChallenge, uses, streak>>

\* get_credential_by_id: in complete_authentication the row the assertion
\* names, in complete_registration (after the verifier) the existing row
\* with the new raw id; a raise inside the try block goes to the except
\* block, which deletes the challenge
select_credential(w) ==
    /\ reqs[w].pc = "select_credential"
    /\ LET r == reqs[w]
           rows == get_credential_by_id(r.resp.id)
       IN reqs' = [reqs EXCEPT ![w] =
              IF r.op = "authentication"
              THEN IF r.resp.id = BadId THEN Return(w, r.op, ErrFormat)
                   ELSE IF InvalidCredential(rows, Lower(r.h))
                        THEN Return(w, r.op, ErrCredential)
                   ELSE LET i == CHOOSE i \in rows : TRUE IN
                        [r EXCEPT !.pc = "commit", !.row = i,
                                  !.cred = credentials[i]]
              ELSE IF ~r.resp.verifies
                   THEN [r EXCEPT !.pc = "delete_challenge",
                                  !.result = ErrRegFailed]
                   ELSE IF rows # {}
                        THEN [r EXCEPT !.pc = "delete_challenge",
                                       !.result = ErrDuplicate]
                   ELSE [r EXCEPT !.pc = "commit"]]
    /\ UNCHANGED <<app, audit, risk_row, issued, now, svc, bm, nextChallenge, uses, streak>>

\* The verifier and "await self.db.commit()": complete_authentication
\* writes the sign_count and usage_count of its session's copy of the
\* credential, complete_registration inserts the new row
commit(w) ==
    /\ reqs[w].pc = "commit"
    /\ LET r == reqs[w]
           new == UpdatedCredential(r.cred, r.resp.count)
           res == IF r.op = "authentication"
                  THEN IF r.resp.verifies THEN Ok ELSE ErrAuthFailed
                  ELSE IF UniqueViolation(r.resp.id) THEN ErrRegFailed ELSE Ok
       IN /\ credentials' =
                 IF res # Ok THEN credentials
                 ELSE IF r.op = "authentication"
                 THEN [credentials EXCEPT
                         ![r.row].sign_count = new.sign_count,
                         ![r.row].usage_count = new.usage_count]
                 ELSE Append(credentials, NewCredential(Lower(r.h), r.resp))
          /\ reqs' = [reqs EXCEPT ![w] =
                         [r EXCEPT !.pc = "delete_challenge", !.result = res]]
    /\ UNCHANGED <<app, audit, risk_row, issued, now, users, challenges, bm, nextChallenge, uses,
                   streak>>

\* "await self.db.delete(challenge_data)" and its commit, after the success
\* and in the except block; deleting a row that is gone deletes nothing
delete_challenge(w) ==
    /\ reqs[w].pc = "delete_challenge"
    /\ LET r == reqs[w] IN
       /\ challenges' = challenges \ {r.ch}
       /\ uses' = IF r.result = Ok THEN Used(r.ch.id) ELSE uses
       /\ reqs' = [reqs EXCEPT ![w] = Return(w, r.op, r.result)]
    /\ UNCHANGED <<app, audit, risk_row, issued, now, users, credentials, bm, nextChallenge, streak>>

\* complete_webauthn_authentication after a ValueError raised before the
\* service loaded the user: get_user_by_username in the except block
select_record(w) ==
    /\ reqs[w].pc = "select_record"
    /\ reqs' = [reqs EXCEPT
                  ![w].pc = "record",
                  ![w].user = IF UserExists(reqs[w].h)
                              THEN users[Lower(reqs[w].h)] ELSE NoUser]
    /\ UNCHANGED <<app, audit, risk_row, issued, now, svc, bm, nextChallenge, uses, streak>>

\* complete_webauthn_authentication after the service call:
\* record_login_attempt on the session's User object and its commit
record(w) ==
    /\ reqs[w].pc = "record"
    /\ LET r == reqs[w]
           u == Lower(r.h)
       IN /\ users' = IF r.user # NoUser
                      THEN [users EXCEPT ![u] =
                              Written(@, r.user,
                                  record_login_attempt(r.user, r.result = Ok))]
                      ELSE users
          /\ streak' = IF r.user = NoUser THEN streak
                       ELSE IF r.result = Ok THEN [streak EXCEPT ![u] = 0]
                       ELSE [streak EXCEPT ![u] = @ + 1]
          /\ reqs' = [reqs EXCEPT ![w].pc = "reply"]
    /\ UNCHANGED <<app, audit, risk_row, issued, now, credentials, challenges, bm, nextChallenge, uses>>

\* The response is sent; the worker takes the next request
reply(w) ==
    /\ reqs[w].pc = "reply"
    /\ reqs' = [reqs EXCEPT ![w] = Idle]
    /\ UNCHANGED <<app, audit, risk_row, issued, now, svc, bm, nextChallenge, uses, streak>>

---------------------------------------------------------------------------
(* Specifications *)

\* The part of the state space a specification explores
Within(values, creds, usage, failed, time) ==
    /\ nextChallenge <= values + 1
    /\ Len(credentials) <= creds
    /\ \A i \in 1..Len(credentials) : credentials[i].usage_count <= usage
    /\ \A u \in DOMAIN users : users[u].failed_login_attempts <= failed
    /\ now <= time

\* Both implementations start empty
Empty ==
    /\ now = 0
    /\ users = <<>>
    /\ credentials = <<>>
    /\ challenges = {}
    /\ nextChallenge = 1
    /\ uses = <<>>
    /\ streak = [u \in Usernames |-> 0]
    /\ users_db = <<>>
    /\ challenges_db = <<>>
    /\ verification_pins = <<>>
    /\ add_device_sessions = <<>>
    /\ nextSession = 1
    /\ reqs = [w \in Workers |-> Idle]
    /\ issued = <<>>
    /\ audit = TRUE
    /\ risk_row = NewRiskRow

Init == app = "service" /\ Empty

InSpec == Within(MaxIssued, MaxCreds, MaxUsage, MaxFailed, MaxTime)

Signed == {"alice"}                 \* the users that hold a session token
AuthHandles == {"alice", "ALICE"}   \* the handles that try to authenticate

Next ==
    \/ \E h \in Handles : begin_webauthn_registration(h) /\ InSpec'
    \/ \E h \in Handles, resp \in Responses :
          complete_webauthn_registration(h, resp) /\ InSpec'
    \/ \E h \in AuthHandles : begin_webauthn_authentication(h) /\ InSpec'
    \/ \E h \in AuthHandles, resp \in Responses :
          complete_webauthn_authentication(h, resp) /\ InSpec'
    \/ \E u \in Signed, id \in 1..MaxCreds : disable_credential(u, id)
    \/ \E u \in Signed : unlock_account(u)
    \/ \E u \in Signed : deactivate_account(u)
    \/ cleanup_expired_challenges
    \/ Tick(TickMinutes) /\ InSpec'

Spec == Init /\ [][Next]_vars

InLock == Within(LockMaxIssued, LockMaxCreds, LockMaxUsage, LockMaxFailed,
                 LockMaxTime)

LockResponses == {r \in Responses : r.id = "k1" /\ r.count = 0}

NextLock ==
    \/ begin_webauthn_registration("alice") /\ InLock'
    \/ \E resp \in LockResponses :
          complete_webauthn_registration("alice", resp) /\ InLock'
    \/ begin_webauthn_authentication("alice") /\ InLock'
    \/ \E resp \in LockResponses :
          complete_webauthn_authentication("alice", resp) /\ InLock'
    \/ disable_credential("alice", 1)
    \/ unlock_account("alice")
    \/ deactivate_account("alice")
    \/ Tick(LockTickMinutes) /\ InLock'

SpecLock == Init /\ [][NextLock]_vars

InBM == /\ nextChallenge <= BMMaxIssued + 1
        /\ nextSession <= MaxSessions + 1
        /\ now <= BMMaxTime

InitBM == app = "bmauth" /\ Empty

BMEmails == {"alice"}

NextBM ==
    \/ \E e \in BMEmails : register_begin(e) /\ InBM'
    \/ \E e \in BMEmails, ua \in UserAgents, c \in RawIds :
          register_complete(e, ua, c)
    \/ \E e \in BMEmails, ua \in UserAgents : login_begin(e, ua) /\ InBM'
    \/ \E e \in BMEmails, ua \in UserAgents, c \in RawIds :
          login_complete(e, ua, c) /\ InBM'
    \/ \E e \in BMEmails, pin \in Pins : verify_email(e, pin)
    \/ \E e \in BMEmails : resend_pin(e)
    \/ \E sid \in 1..MaxSessions : poll_device_status(sid)
    \/ \E sid \in 1..MaxSessions : join_device_begin(sid) /\ InBM'
    \/ \E sid \in 1..MaxSessions, ua \in UserAgents, c \in RawIds :
          join_device_complete(sid, ua, c)
    \/ Tick(BMTickMinutes) /\ InBM'

SpecBM == InitBM /\ [][NextBM]_vars

InConc == Within(ConcMaxIssued, ConcMaxCreds, ConcMaxUsage, ConcMaxFailed, 0)

ConcResponses == {r \in Responses : r.id = "k1"}

NextConc ==
    \/ begin_webauthn_registration("alice") /\ InConc'
    \/ begin_webauthn_authentication("alice") /\ InConc'
    \/ \E w \in Workers, op \in {"registration", "authentication"},
          resp \in ConcResponses : select_challenge(w, op, "alice", resp)
    \/ \E w \in Workers : select_user(w)
    \/ \E w \in Workers : select_credential(w)
    \/ \E w \in Workers : commit(w) /\ InConc'
    \/ \E w \in Workers : delete_challenge(w)
    \/ \E w \in Workers : select_record(w)
    \/ \E w \in Workers : record(w) /\ InConc'
    \/ \E w \in Workers : reply(w)

SpecConc == Init /\ [][NextConc]_vars

InAudit == /\ Within(AuditMaxIssued, AuditMaxCreds, AuditMaxUsage,
                     AuditMaxFailed, 0)
           /\ \A u \in Usernames : streak[u] <= AuditMaxFailed

AuditResponses == {r \in Responses : r.id \in RawIds /\ r.count = 0}

NextAudit ==
    \/ \E ok \in BOOLEAN : SecurityLogStore(ok)
    \/ begin_webauthn_registration("alice") /\ InAudit'
    \/ \E resp \in AuditResponses :
          complete_webauthn_registration("alice", resp) /\ InAudit'
    \/ begin_webauthn_authentication("alice") /\ InAudit'
    \/ \E resp \in AuditResponses :
          complete_webauthn_authentication("alice", resp) /\ InAudit'
    \/ \E id \in 1..AuditMaxCreds : disable_credential("alice", id)
    \/ unlock_account("alice")
    \/ deactivate_account("alice")

SpecAudit == Init /\ [][NextAudit]_vars

InRace == Within(RaceMaxIssued, RaceMaxCreds, 0, 0, 0)

RaceResponses == {r \in Responses : r.id \in RawIds /\ r.verifies /\ r.count = 0}

NextRace ==
    \/ begin_webauthn_registration("alice") /\ InRace'
    \/ \E w \in Workers, resp \in RaceResponses :
          select_challenge(w, "registration", "alice", resp)
    \/ \E w \in Workers : select_user(w)
    \/ \E w \in Workers : select_credential(w)
    \/ \E w \in Workers : commit(w) /\ InRace'
    \/ \E w \in Workers : delete_challenge(w)
    \/ \E w \in Workers : reply(w)

SpecRace == Init /\ [][NextRace]_vars

\* Every row the risk assessment can be given
RiskRows == [has_created_at : BOOLEAN, days : 0..MaxDays,
             usage_count : 0..MaxRiskUsage,
             transports : SUBSET {"usb", "nfc", "internal"},
             backup_eligible : BOOLEAN, risk_score : {0}]

InRisk == risk_row.days <= MaxDays /\ risk_row.usage_count <= MaxRiskUsage

InitRisk ==
    /\ app = "service"
    /\ now = 0
    /\ users = <<>>
    /\ credentials = <<>>
    /\ challenges = {}
    /\ nextChallenge = 1
    /\ uses = <<>>
    /\ streak = [u \in Usernames |-> 0]
    /\ users_db = <<>>
    /\ challenges_db = <<>>
    /\ verification_pins = <<>>
    /\ add_device_sessions = <<>>
    /\ nextSession = 1
    /\ reqs = [w \in Workers |-> Idle]
    /\ issued = <<>>
    /\ audit = TRUE
    /\ risk_row \in RiskRows

NextRisk ==
    \/ assess_risk /\ InRisk'
    \/ age_row /\ InRisk'

SpecRisk == InitRisk /\ [][NextRisk]_vars

InitAll == app \in {"service", "bmauth"} /\ Empty

NextAll == (app = "service" /\ Next) \/ (app = "bmauth" /\ NextBM)

SpecAll == InitAll /\ [][NextAll]_vars

---------------------------------------------------------------------------
(* Claims *)

\* The response complete_registration or complete_authentication gives for
\* the stored row ch, by the purpose of the ceremony
Complete(op, h, resp, ch) ==
    IF op = "registration" THEN complete_registration(h, resp, ch)
    ELSE complete_authentication(h, resp, ch)

\* C1: a single issued challenge lets at most one complete call succeed.
\* No challenge value is ever used for more than one successful completion;
\* and when the one challenge stored for an (identity, purpose) has just been
\* consumed by a successful completion, every further completion for that
\* identity and purpose is answered with the challenge-missing error until
\* a new challenge is issued (service: "Invalid or expired challenge";
\* bmauth: "Invalid session").
SingleUseStep ==
    /\ \A c \in DOMAIN uses' : uses'[c] <= 1
    /\ \A ch \in challenges :
          ( /\ uses' = Used(ch.id)
            /\ \A d \in challenges :
                  ( /\ d.username = ch.username
                    /\ d.challenge_type = ch.challenge_type ) => d = ch )
          => /\ MostRecent(ch.username, ch.challenge_type)' = {NoRow}
             /\ \A resp \in Responses :
                   Complete(ch.challenge_type, ch.username, resp, NoRow)'
                       = ErrNoChallenge
    /\ \A e \in DOMAIN challenges_db :
          uses' = Used(challenges_db[e])
          => /\ RegisterComplete(e)' = ErrInvalidSession
             /\ \A ua \in UserAgents, c \in RawIds :
                   LoginComplete(e, ua, c)' = ErrInvalidSession

C1_SingleUse == [][SingleUseStep]_vars

\* C1 witness: an authentication challenge has been consumed by a successful
\* completion and no authentication challenge is left for the identity
C1_Witness ==
    /\ app = "service"
    /\ \E c \in DOMAIN uses : uses[c] = 1
    /\ \E i \in 1..Len(credentials) : credentials[i].usage_count = 1
    /\ MostRecent("alice", "authentication") = {NoRow}

\* The requests that complete_authentication has accepted: the verifier
\* passed and the credential update is committed
Accepted(w) ==
    /\ reqs[w].op = "authentication"
    /\ reqs[w].result = Ok

\* C2: of two completeAuthentication calls that run concurrently against one
\* single live authentication challenge, at most one returns success: two
\* requests that fetched the same challenge row are never both accepted.
C2_OneWinner ==
    \A w1 \in Workers, w2 \in Workers :
        ( /\ w1 # w2
          /\ Accepted(w1) /\ reqs[w1].pc \in {"record", "reply"}
          /\ reqs[w2].op = "authentication"
          /\ reqs[w2].pc \in {"record", "reply"}
          /\ reqs[w1].ch = reqs[w2].ch )
        => reqs[w2].result # Ok

\* C3: the stored signature counter of a credential never decreases from
\* one state to the next, whatever counter the verifier reports.
SignCountStep ==
    \A i \in 1..Len(credentials) :
        credentials'[i].sign_count >= credentials[i].sign_count

C3_SignCountMonotone == [][SignCountStep]_vars

\* C4: two concurrent completeAuthentication calls for one credential are
\* never both accepted against the same stored counter value: of two
\* accepted requests in progress, each reporting a counter strictly greater
\* than the stored one it read, the two did not read the same stored value.
C4_CompareAndSet ==
    \A w1 \in Workers, w2 \in Workers :
        ( /\ w1 # w2
          /\ Accepted(w1) /\ Accepted(w2)
          /\ reqs[w1].row = reqs[w2].row
          /\ reqs[w1].resp.count > reqs[w1].cred.sign_count
          /\ reqs[w2].resp.count > reqs[w2].cred.sign_count )
        => reqs[w1].cred.sign_count # reqs[w2].cred.sign_count

\* C5: a completeAuthentication whose verifier reports a counter that is
\* not strictly greater than the stored counter of the credential (equal
\* counters and 0 against 0 included) does not succeed.
C5_CounterMustAdvance ==
    \A h \in Handles, resp \in Responses :
        \A ch \in MostRecent(h, "authentication") :
            \A i \in get_credential_by_id(resp.id) :
                resp.count <= credentials[i].sign_count
                => complete_authentication(h, resp, ch) # Ok

\* C6: after 5 consecutive failed completeAuthentication calls for one
\* identity, with no success and no unlock since, the account carries a
\* lock time, and while the clock is before it every beginAuthentication
\* for the identity (in any spelling of the handle) is refused with
\* "User not found or cannot authenticate".
C6_Lockout ==
    \A u \in DOMAIN users :
        streak[u] >= LockThreshold
        => /\ users[u].locked_until # None
           /\ now < users[u].locked_until
              => \A h \in Handles :
                    Lower(h) = u => start_authentication(h) = ErrUser

\* C6 witness: the fifth failure in a row locked an active account that has
\* an active credential, time has passed, and the lock still holds
C6_Witness ==
    /\ "alice" \in DOMAIN users
    /\ streak["alice"] >= LockThreshold
    /\ users["alice"].is_active
    /\ get_user_credentials("alice", TRUE) # {}
    /\ now > 0
    /\ is_locked(users["alice"])
    /\ start_authentication("alice") = ErrUser

ExpiredJoinStep ==
    \A sid \in 1..MaxSessions, ua \in UserAgents, c \in RawIds :
        ( /\ sid \in DOMAIN add_device_sessions
          /\ now > add_device_sessions[sid].expires_at
          /\ join_device_complete(sid, ua, c) )
        => /\ users_db' = users_db
           /\ add_device_sessions' = add_device_sessions

C8_ExpiredJoinRejected == [][ExpiredJoinStep]_vars

\* C9: pollPairing on a session whose expiry time has passed answers
\* "Session expired", whatever status is stored on the session, and the
\* access removes the session record.
ExpiredPollStep ==
    \A sid \in 1..MaxSessions :
        ( /\ sid \in DOMAIN add_device_sessions
          /\ now > add_device_sessions[sid].expires_at
          /\ poll_device_status(sid) )
        => sid \notin DOMAIN add_device_sessions'

ExpiredPollAnswer ==
    \A sid \in DOMAIN add_device_sessions :
        now > add_device_sessions[sid].expires_at
        => PollDeviceStatus(sid) = ErrSessionExpired

C9_ExpiredPoll == []ExpiredPollAnswer /\ [][ExpiredPollStep]_vars

\* C9 witness: a session on which a join was completed has expired and a
\* poll has removed it, while the enrolled device is still on the account
C9_Witness ==
    \E sid \in 1..MaxSessions :
        /\ sid < nextSession
        /\ sid \notin DOMAIN add_device_sessions
        /\ \E e \in DOMAIN users_db : Cardinality(DOMAIN users_db[e].devices) > 1

\* C10: a completeAuthentication or completeRegistration call that found a
\* stored challenge leaves no such challenge behind, whatever its outcome.
DestructiveStep ==
    \A h \in Handles, resp \in Responses :
        /\ ( /\ MostRecent(h, "authentication") # {NoRow}
             /\ complete_webauthn_authentication(h, resp) )
           => ~(MostRecent(h, "authentication") \subseteq challenges')
        /\ ( /\ MostRecent(h, "registration") # {NoRow}
             /\ complete_webauthn_registration(h, resp) )
           => ~(MostRecent(h, "registration") \subseteq challenges')

C10_Destructive == [][DestructiveStep]_vars

\* The step is a successful completion that consumed the service's row ch
Consumes(ch) == uses' = Used(ch.id)

\* The step is a successful bmauth completion on the challenge held for e:
\* a login_complete when it opens a pairing session, else a register_complete
ConsumesLogin(e) ==
    uses' = Used(challenges_db[e]) /\ nextSession' # nextSession

ConsumesRegister(e) ==
    uses' = Used(challenges_db[e]) /\ nextSession' = nextSession

\* C11: issuing a challenge supersedes the earlier ones for the same
\* (identity handle, purpose): after a successful completion no live
\* challenge remains stored for that handle and purpose.
SupersedeStep ==
    \A ch \in challenges :
        Consumes(ch)
        => \A d \in challenges' :
              ( /\ d.username = ch.username
                /\ d.challenge_type = ch.challenge_type ) => is_expired(d)

C11_LastIssuedWins == [][SupersedeStep]_vars

\* C12: challenges are scoped by purpose.  The service completes a ceremony
\* only on a row of the ceremony's own type; in bmauth a successful login
\* consumes a challenge issued by login_begin, and a successful registration
\* one issued by register_begin or join_device_begin.
PurposeStep ==
    /\ \A ch \in challenges :
          Consumes(ch)
          => IF Len(credentials') > Len(credentials)
             THEN ch.challenge_type = "registration"
             ELSE ch.challenge_type = "authentication"
    /\ \A e \in DOMAIN challenges_db :
          /\ ConsumesLogin(e) => issued[e].purpose = "authentication"
          /\ ConsumesRegister(e) => issued[e].purpose \in {"registration", "join"}

C12_PurposeScoped == [][PurposeStep]_vars

\* C13: no completion succeeds on a challenge whose time has passed: the
\* service's row is unexpired when it is consumed, and bmauth's challenge is
\* no older than the time announced for the ceremony.
FreshStep ==
    /\ \A ch \in challenges : Consumes(ch) => ~is_expired(ch)
    /\ \A e \in DOMAIN challenges_db :
          (ConsumesLogin(e) \/ ConsumesRegister(e))
          => now <= issued[e].at + CeremonyMinutes

C13_NoExpiredChallenge == [][FreshStep]_vars

\* C14: completeAuthentication succeeds for an identity only on a
\* credential that exists, is owned by that identity and is active: the
\* response is success only then, and every step that counts a use of a
\* credential is a completion on an authentication challenge of the owner
\* of that credential, which is active.
OwnedActive ==
    \A h \in Handles, resp \in Responses :
        \A ch \in MostRecent(h, "authentication") :
            complete_authentication(h, resp, ch) = Ok
            => \E i \in 1..Len(credentials) :
                  /\ credentials[i].credential_id = resp.id
                  /\ credentials[i].user_id = Lower(h)
                  /\ credentials[i].is_active

OwnedActiveStep ==
    \A i \in 1..Len(credentials) :
        credentials'[i].usage_count # credentials[i].usage_count
        => /\ credentials[i].is_active
           /\ \E ch \in challenges :
                 /\ Consumes(ch)
                 /\ ch.challenge_type = "authentication"
                 /\ ch.username = credentials[i].user_id

C14_OwnedActiveCredential == []OwnedActive /\ [][OwnedActiveStep]_vars

\* C14 witness: alice holds a live authentication challenge, and a verified
\* assertion for a disabled credential of hers and one for a credential of
\* another identity are both refused
C14_Witness ==
    \E ch \in MostRecent("alice", "authentication") :
        /\ ch # NoRow /\ ~is_expired(ch)
        /\ \E i \in 1..Len(credentials), j \in 1..Len(credentials) :
              /\ credentials[i].user_id = "alice" /\ ~credentials[i].is_active
              /\ credentials[j].user_id = "bob" /\ credentials[j].is_active
              /\ \A k \in {i, j} :
                    complete_authentication("alice",
                        [id |-> credentials[k].credential_id,
                         verifies |-> TRUE, count |-> 0], ch) = ErrCredential

\* C15: every failed completeAuthentication for an existing identity,
\* whatever its cause, adds exactly 1 to the identity's failed_login_attempts.
FailureCountedStep ==
    \A h \in AuthHandles, resp \in Responses :
        ( /\ UserExists(h)
          /\ uses' = uses /\ now' = now /\ nextChallenge' = nextChallenge
          /\ credentials' = credentials
          /\ \A u \in DOMAIN users \ {Lower(h)} : users'[u] = users[u]
          /\ complete_webauthn_authentication(h, resp) )
        => users'[Lower(h)].failed_login_attempts
               = users[Lower(h)].failed_login_attempts + 1

C15_FailureCounted == [][FailureCountedStep]_vars

\* C15 witness: a completion naming a disabled credential has failed and
\* is counted on the identity
C15_Witness ==
    /\ "alice" \in DOMAIN users
    /\ users["alice"].failed_login_attempts = 1
    /\ streak["alice"] = 1
    /\ \E i \in 1..Len(credentials) :
          credentials[i].user_id = "alice" /\ ~credentials[i].is_active
    /\ \E c \in challenges : c.challenge_type = "authentication"

\* C16: a successful completeAuthentication in which the verifier returns
\* counter c stores c as the credential's sign_count, adds one to its
\* usage_count, and leaves the identity with failed_login_attempts 0 and no
\* lock time.
SuccessEffectsStep ==
    \A ch \in challenges :
        (Consumes(ch) /\ ch.challenge_type = "authentication")
        => /\ users'[ch.username].failed_login_attempts = 0
           /\ users'[ch.username].locked_until = None
           /\ \E h \in Handles, resp \in Responses :
                 /\ complete_webauthn_authentication(h, resp)
                 /\ \E i \in get_credential_by_id(resp.id) :
                       /\ credentials[i].user_id = ch.username
                       /\ credentials'[i].sign_count = resp.count
                       /\ credentials'[i].usage_count =
                              credentials[i].usage_count + 1

UnlockStep ==
    \A u \in DOMAIN users :
        unlock_account(u)
        => /\ users'[u].failed_login_attempts = 0
           /\ users'[u].locked_until = None
           /\ (users'[u].is_active /\ get_user_credentials(u, TRUE) # {})
              => start_authentication(u)' = Ok

C17_Unlock == [][UnlockStep]_vars

\* C17 witness: an active account with an active credential whose lock was
\* extended by a sixth failure is locked, and an unlock would clear it
C17_Witness ==
    /\ "alice" \in DOMAIN users
    /\ users["alice"].is_active
    /\ users["alice"].failed_login_attempts > LockThreshold
    /\ is_locked(users["alice"])
    /\ get_user_credentials("alice", TRUE) # {}
    /\ can_authenticate(unlock_user(users["alice"]))

\* C18: beginAuthentication is refused with "User not found or cannot
\* authenticate" for an inactive or locked identity and with "No active
\* credentials found" for one without an active credential, and accepted
\* otherwise; an authentication challenge is stored only by an accepted
\* call, one row at a time.
BeginAnswer ==
    \A h \in Handles :
        UserExists(h)
        => LET user == users[Lower(h)]
               active == get_user_credentials(Lower(h), TRUE)
           IN /\ (~user.is_active \/ is_locked(user))
                 => start_authentication(h) = ErrUser
              /\ (user.is_active /\ ~is_locked(user) /\ active = {})
                 => start_authentication(h) = ErrNoCredentials
              /\ (user.is_active /\ ~is_locked(user) /\ active # {})
                 => start_authentication(h) = Ok

BeginStoresStep ==
    LET new == {c \in challenges' \ challenges :
                   c.challenge_type = "authentication"}
    IN  new # {}
        => /\ Cardinality(new) = 1
           /\ challenges' = challenges \cup new
           /\ \A c \in new :
                 /\ c.username \in DOMAIN users
                 /\ users[c.username].is_active
                 /\ ~is_locked(users[c.username])
                 /\ get_user_credentials(c.username, TRUE) # {}

C18_BeginAuthentication == []BeginAnswer /\ [][BeginStoresStep]_vars

\* C18 witness: an identity that may authenticate has its only credential
\* disabled and is answered "No active credentials found"
C18_Witness ==
    /\ "alice" \in DOMAIN users
    /\ can_authenticate(users["alice"])
    /\ get_user_credentials("alice", FALSE) # {}
    /\ get_user_credentials("alice", TRUE) = {}
    /\ start_authentication("alice") = ErrNoCredentials

\* C19: beginRegistration for an identity that already has an active
\* credential is accepted (add another device).
C19_AddDeviceAllowed ==
    \A h \in Handles :
        (UserExists(h) /\ get_user_credentials(Lower(h), TRUE) # {})
        => begin_registration(h) = Ok

\* C20: a completeJoin that enrolls a device does so on a challenge that a
\* preceding beginJoin issued for the session's identity, and consumes it.
JoinStep ==
    \A sid \in 1..MaxSessions, ua \in UserAgents, c \in RawIds :
        (JoinDeviceComplete(sid) = Ok /\ join_device_complete(sid, ua, c))
        => LET e == add_device_sessions[sid].email IN
           /\ e \in DOMAIN challenges_db
           /\ issued[e].purpose = "join"
           /\ e \notin DOMAIN challenges_db'

C20_JoinNeedsChallenge == [][JoinStep]_vars

\* C21: beginJoin rejects a session id that is unknown or whose expiry time
\* has passed: it answers an error and issues no registration challenge for
\* the session's identity.
DeadSession(sid) ==
    \/ sid \notin DOMAIN add_device_sessions
    \/ now > add_device_sessions[sid].expires_at

JoinBeginAnswer ==
    \A sid \in 1..MaxSessions : DeadSession(sid) => JoinDeviceBegin(sid) # Ok

JoinBeginStep ==
    \A sid \in 1..MaxSessions :
        (DeadSession(sid) /\ join_device_begin(sid))
        => /\ challenges_db' = challenges_db
           /\ nextChallenge' = nextChallenge

C21_JoinBeginRejectsDead == []JoinBeginAnswer /\ [][JoinBeginStep]_vars

\* C22: once a pairing session's status is completed, no later operation
\* changes its recorded new device id, and a further completeJoin on the
\* same session id enrolls no device.
WriteOnceStep ==
    \A sid \in DOMAIN add_device_sessions :
        add_device_sessions[sid].status = Completed
        => /\ sid \in DOMAIN add_device_sessions'
               => add_device_sessions'[sid].new_device_id =
                      add_device_sessions[sid].new_device_id
           /\ \A ua \in UserAgents, c \in RawIds :
                  join_device_complete(sid, ua, c) => users_db' = users_db

C22_WriteOnceCompletion == [][WriteOnceStep]_vars

\* C23: a pairing session's stored status only moves from pending to
\* completed: no step takes a session from completed back to pending, and
\* a session is created with status pending and a null new device id.
StatusStep ==
    /\ \A sid \in DOMAIN add_device_sessions \cap DOMAIN add_device_sessions' :
           add_device_sessions[sid].status = Completed
           => add_device_sessions'[sid].status = Completed
    /\ \A sid \in DOMAIN add_device_sessions' \ DOMAIN add_device_sessions :
           /\ add_device_sessions'[sid].status = Pending
           /\ add_device_sessions'[sid].new_device_id = NoDevice

StatusKnown ==
    \A sid \in DOMAIN add_device_sessions :
        add_device_sessions[sid].status \in {Pending, Completed}

C23_StatusForward == []StatusKnown /\ [][StatusStep]_vars

\* C23 witness: one session has been completed by a join and a session
\* created after it is pending
C23_Witness ==
    \E s1, s2 \in DOMAIN add_device_sessions :
        /\ s1 < s2
        /\ add_device_sessions[s1].status = Completed
        /\ add_device_sessions[s1].new_device_id # NoDevice
        /\ add_device_sessions[s2].status = Pending

\* C24: pollPairing on an existing unexpired session answers pending when
\* no completeJoin has succeeded for it and completed (with the label of the
\* enrolled device) otherwise; it never fails in another way.
C24_PollAnswers ==
    \A sid \in DOMAIN add_device_sessions :
        ~(now > add_device_sessions[sid].expires_at)
        => PollDeviceStatus(sid) =
               IF add_device_sessions[sid].status = Completed
               THEN Completed ELSE Pending

\* C25: every pairing session for an identity is created by a
\* completeAuthentication for that identity that succeeded: on a stored
\* challenge, from a device enrolled on the account with the credential it
\* presents, for a verified address; a failed or rejected login creates no
\* session.
Authenticates(e, ua, c) ==
    /\ e \in DOMAIN challenges_db
    /\ e \in DOMAIN users_db
    /\ DeviceId(e, ua) \in DOMAIN users_db[e].devices
    /\ users_db[e].devices[DeviceId(e, ua)].credential_id = c
    /\ users_db[e].email_verified

CreatedByLoginStep ==
    /\ \A sid \in DOMAIN add_device_sessions' \ DOMAIN add_device_sessions :
           \E e \in Emails, ua \in UserAgents, c \in RawIds :
               /\ Authenticates(e, ua, c)
               /\ LoginComplete(e, ua, c) = Ok
               /\ login_complete(e, ua, c)
               /\ add_device_sessions'[sid].email = e
    /\ \A e \in Emails, ua \in UserAgents, c \in RawIds :
           (LoginComplete(e, ua, c) # Ok /\ login_complete(e, ua, c))
           => /\ DOMAIN add_device_sessions' = DOMAIN add_device_sessions
              /\ nextSession' = nextSession

FailureCause(h, resp) ==
    IF ~UserExists(h) THEN "identity"
    ELSE IF /\ resp.id \in RawIds
            /\ InvalidCredential(get_credential_by_id(resp.id), Lower(h))
         THEN "credential"
    ELSE IF ~resp.verifies THEN "signature"
    ELSE "none"

LoginFailureCause(e, ua, c) ==
    IF e \notin DOMAIN users_db THEN "identity"
    ELSE IF DeviceId(e, ua) \notin DOMAIN users_db[e].devices THEN "credential"
    ELSE IF users_db[e].devices[DeviceId(e, ua)].credential_id # c
         THEN "credential"
    ELSE "none"

UniformService ==
    \A h1, h2 \in Handles, r1, r2 \in Responses :
        \A c1 \in MostRecent(h1, "authentication"),
           c2 \in MostRecent(h2, "authentication") :
            ( /\ FailureCause(h1, r1) # "none"
              /\ FailureCause(h2, r2) # "none"
              /\ complete_authentication(h1, r1, c1) # Ok
              /\ complete_authentication(h2, r2, c2) # Ok )
            => complete_authentication(h1, r1, c1) =
                   complete_authentication(h2, r2, c2)

UniformLogin ==
    \A e1, e2 \in Emails, u1, u2 \in UserAgents, k1, k2 \in RawIds :
        ( /\ e1 \in DOMAIN challenges_db
          /\ e2 \in DOMAIN challenges_db
          /\ LoginFailureCause(e1, u1, k1) # "none"
          /\ LoginFailureCause(e2, u2, k2) # "none" )
        => LoginComplete(e1, u1, k1) = LoginComplete(e2, u2, k2)

C26_UniformFailure ==
    /\ app = "service" => UniformService
    /\ app = "bmauth" => UniformLogin

\* C27: replaying an authentication response that was accepted once with
\* counter 1 (the credential now stores counter 1 and has been used) fails
\* as a possible-cloning event and leaves the credential's counter and usage
\* count unchanged.
PossibleCloning == "PossibleCloning"    \* the outcome the claim names

Replayed(h, resp, i) ==
    /\ UserExists(h)
    /\ can_authenticate(users[Lower(h)])
    /\ i \in get_credential_by_id(resp.id)
    /\ credentials[i].user_id = Lower(h)
    /\ credentials[i].is_active
    /\ credentials[i].usage_count >= 1
    /\ credentials[i].sign_count = 1
    /\ resp.count = 1

ReplayAnswer ==
    \A h \in AuthHandles, resp \in Responses, i \in 1..Len(credentials) :
        Replayed(h, resp, i)
        => \A ch \in MostRecent(h, "authentication") :
               complete_authentication(h, resp, ch) = PossibleCloning

ReplayStep ==
    \A h \in AuthHandles, resp \in Responses, i \in 1..Len(credentials) :
        (Replayed(h, resp, i) /\ complete_webauthn_authentication(h, resp))
        => /\ credentials'[i].sign_count = credentials[i].sign_count
           /\ credentials'[i].usage_count = credentials[i].usage_count

C27_ReplayIsCloning == []ReplayAnswer /\ [][ReplayStep]_vars

\* C28: a failure to record an audit event never changes a ceremony's
\* outcome: beginRegistration, completeRegistration and
\* completeAuthentication return the same result, and write the same
\* credential, challenge and identity state, whether the write of the
\* security log succeeds or fails.
AuditAnswer ==
    \A h \in Handles, resp \in Responses :
        /\ begin_registration(h) = BeginRegistration(h, TRUE)
        /\ \A ch \in MostRecent(h, "registration") :
               complete_registration(h, resp, ch) =
                   CompleteRegistration(h, resp, ch, TRUE)
        /\ \A ch \in MostRecent(h, "authentication") :
               CompleteAuthentication(h, resp, ch, audit) =
                   CompleteAuthentication(h, resp, ch, TRUE)

AuditStep ==
    \A h \in Handles, resp \in Responses :
        /\ (BeginRegistration(h, TRUE) = Ok /\ begin_webauthn_registration(h))
           => /\ Lower(h) \in DOMAIN users'
              /\ nextChallenge' = nextChallenge + 1
        /\ ( /\ \A ch \in MostRecent(h, "registration") :
                   CompleteRegistration(h, resp, ch, TRUE) = Ok
             /\ complete_webauthn_registration(h, resp) )
           => /\ credentials' = Append(credentials, NewCredential(Lower(h), resp))
              /\ challenges' # challenges
        /\ (UserExists(h) /\ complete_webauthn_authentication(h, resp))
           => \E ch \in MostRecent(h, "authentication") :
                  users'[Lower(h)] =
                      record_login_attempt(users[Lower(h)],
                          complete_authentication(h, resp, ch) = Ok)

C28_AuditNeverFails == []AuditAnswer /\ [][AuditStep]_vars

\* C29: no operation removes a credential record while its owning identity
\* exists: every credential registered for an identity stays listed for it
\* (disabling only clears its active flag, and a later registration for the
\* identity discards none).
KeepsCredentialsStep ==
    /\ \A i \in 1..Len(credentials) :
           /\ i <= Len(credentials')
           /\ credentials'[i].credential_id = credentials[i].credential_id
           /\ credentials'[i].user_id = credentials[i].user_id
    /\ \A e \in DOMAIN users_db :
           /\ e \in DOMAIN users_db'
           /\ \A d \in DOMAIN users_db[e].devices :
                  /\ d \in DOMAIN users_db'[e].devices
                  /\ users_db'[e].devices[d].credential_id =
                         users_db[e].devices[d].credential_id

C29_NoHardDelete == [][KeepsCredentialsStep]_vars

\* C30: disableCredential is idempotent in its effect: called by the owner on
\* a credential that is already disabled it answers success, and it leaves
\* the credential's active flag, counter, usage count and owner as they are
\* after the first call.
Redisable(u, id) ==
    /\ u \in DOMAIN users /\ users[u].is_active
    /\ id \in get_user_credentials(u, FALSE)
    /\ ~credentials[id].is_active

IdempotentAnswer ==
    \A u \in Signed, id \in 1..Len(credentials) :
        Redisable(u, id)
        => /\ DisableCredential(u, id) = Ok
           /\ Disabled(credentials[id]) = credentials[id]

IdempotentStep ==
    \A u \in Signed, id \in 1..Len(credentials) :
        (Redisable(u, id) /\ disable_credential(u, id))
        => credentials' = credentials

C30_DisableIdempotent == []IdempotentAnswer /\ [][IdempotentStep]_vars

\* C30 witness: a credential that has been used with counter 1 is disabled
\* and its owner can call disableCredential on it again
C30_Witness ==
    \E id \in 1..Len(credentials) :
        /\ Redisable("alice", id)
        /\ credentials[id].usage_count >= 1
        /\ credentials[id].sign_count = 1

\* C31: updates of an identity's lockout fields are serialized: the failed
\* completeAuthentication calls recorded for an identity since its last
\* success, concurrent ones included, are all counted in
\* failed_login_attempts (no lost update), and locked_until is never set
\* while failed_login_attempts is below 5.
NoLostUpdate ==
    \A u \in DOMAIN users : users[u].failed_login_attempts = streak[u]

LockConsistent ==
    \A u \in DOMAIN users :
        users[u].locked_until # None
        => users[u].failed_login_attempts >= LockThreshold

C31_LockoutSerialized == NoLostUpdate /\ LockConsistent

\* C32: one issued registration challenge never enrolls two credentials:
\* of two completeRegistration calls for one identity that carry different
\* credentials and run against the single challenge issued, exactly one
\* creates a credential and the other fails with the challenge-missing
\* error.
OneEnrollment == \A c \in DOMAIN uses : uses[c] <= 1

LoserMissing ==
    \A w1 \in Workers, w2 \in Workers :
        ( /\ w1 # w2
          /\ nextChallenge = 2
          /\ reqs[w1].op = "registration" /\ reqs[w2].op = "registration"
          /\ reqs[w1].h = reqs[w2].h
          /\ reqs[w1].resp.id # reqs[w2].resp.id
          /\ reqs[w1].pc = "reply" /\ reqs[w2].pc = "reply"
          /\ reqs[w1].result = Ok )
        => reqs[w2].result = ErrNoChallenge

C32_OneEnrollment == OneEnrollment /\ LoserMissing

\* C33: a failed authentication that brings failed_login_attempts to n
\* records a low-risk login-failed event and leaves locked_until for n of 1
\* or 2, records a medium-risk multiple-failed-attempts event and leaves
\* locked_until for n of 3 or 4, and for n of 5 or more sets locked_until to
\* now plus the lock duration and records a high-risk account-locked event.
FailureLevels ==
    \A u \in DOMAIN users :
        LET n == users[u].failed_login_attempts + 1
            new == record_login_attempt(users[u], FALSE)
            ev == login_attempt_log(users[u], FALSE)
        IN  /\ new.failed_login_attempts = n
            /\ n \in {1, 2}
               => /\ ev = Event("login_failed", "low")
                  /\ new.locked_until = users[u].locked_until
            /\ n \in {3, 4}
               => /\ ev = Event("multiple_failed_attempts", "medium")
                  /\ new.locked_until = users[u].locked_until
            /\ n >= 5
               => /\ ev = Event("account_locked", "high")
                  /\ new.locked_until = now + LockMinutes

FailureLevelsStep ==
    \A resp \in LockResponses :
        ( /\ UserExists("alice")
          /\ \A ch \in MostRecent("alice", "authentication") :
                 complete_authentication("alice", resp, ch) # Ok
          /\ complete_webauthn_authentication("alice", resp) )
        => users'["alice"] = record_login_attempt(users["alice"], FALSE)

C33_FailureLevels == []FailureLevels /\ [][FailureLevelsStep]_vars

\* C33 witness: failed authentications have brought the counter through 1
\* to 4 and the one that made it 5 has set the lock
C33_Witness ==
    /\ UserExists("alice")
    /\ users["alice"].failed_login_attempts = LockThreshold
    /\ users["alice"].locked_until = now + LockMinutes

\* C34: for every combination of credential age, usage count, transport set
\* and backup eligibility calculate_risk_score returns an integer from 0 to
\* 100, and the risk_score stored after a successful authentication is in
\* that range.
C34_RiskScoreRange ==
    /\ calculate_risk_score(risk_row) \in 0..MaxScore
    /\ risk_row.risk_score \in 0..MaxScore

\* C34 witness: an authentication has stored the largest score a used
\* credential can get (new, nfc, not backup-eligible)
C34_Witness ==
    /\ risk_row.usage_count >= 1
    /\ risk_row.risk_score = 40
    /\ risk_row.risk_score = calculate_risk_score(risk_row)

\* The identity is inactive, or the clock is before its locked_until
Blocked(user) ==
    \/ ~user.is_active
    \/ user.locked_until # None /\ now < user.locked_until

\* A response that would pass every test of complete_authentication other
\* than the one of the user: an unexpired challenge, the identity's active
\* credential, an assertion that verifies
ValidFor(h, resp, ch) ==
    /\ ch # NoRow
    /\ ~is_expired(ch)
    /\ resp.id # BadId
    /\ ~InvalidCredential(get_credential_by_id(resp.id), Lower(h))
    /\ resp.verifies

\* While the identity is blocked no call returns success
BlockedAnswer ==
    \A h \in Handles : \A resp \in Responses :
        \A ch \in MostRecent(h, "authentication") :
            UserExists(h) /\ Blocked(users[Lower(h)])
            => /\ complete_authentication(h, resp, ch) # Ok
               /\ ValidFor(h, resp, ch)
                  => complete_authentication(h, resp, ch) = ErrUser

\* A step taken while the identity is blocked counts no use of a credential
\* and does not reset the failure counter, unless it is an unlock
BlockedStep ==
    \A u \in DOMAIN users :
        Blocked(users[u])
        => /\ \A i \in 1..Len(credentials) :
                  credentials'[i].usage_count = credentials[i].usage_count
           /\ users'[u].failed_login_attempts < users[u].failed_login_attempts
              => users'[u] = unlock_user(users[u])

\* C35: while an identity is locked (the clock is before locked_until) or
\* inactive, no completeAuthentication for it returns success, even with a
\* valid response to a challenge issued before it became locked or inactive.
C35_BlockedNeverSucceeds == []BlockedAnswer /\ [][BlockedStep]_vars

\* C35 witness: the identity is active and locked, and a valid response to a
\* stored, unexpired challenge is refused
C35_Witness ==
    /\ "alice" \in DOMAIN users
    /\ users["alice"].is_active
    /\ is_locked(users["alice"])
    /\ \E ch \in MostRecent("alice", "authentication") :
          \E resp \in Responses :
              /\ ValidFor("alice", resp, ch)
              /\ complete_authentication("alice", resp, ch) = ErrUser

\* While the identity is locked a call fails whatever it presents, also
\* when no challenge is stored, and the failure recorded on the user counts
\* and sets the lock time to the present plus the lock duration
LockedFailureAnswer ==
    \A u \in DOMAIN users :
        is_locked(users[u])
        => /\ \A resp \in Responses :
                  \A ch \in MostRecent(u, "authentication") \cup {NoRow} :
                      complete_authentication(u, resp, ch) # Ok
           /\ record_login_attempt(users[u], FALSE) =
                  [users[u] EXCEPT
                      !.failed_login_attempts = @ + 1,
                      !.locked_until = now + LockMinutes]

\* A failed completeAuthentication (the steps that lengthen the streak of
\* failures) on a locked identity counts and moves the end of the lock
ExtendsLockStep ==
    \A u \in DOMAIN users :
        is_locked(users[u]) /\ streak'[u] = streak[u] + 1
        => /\ users'[u].failed_login_attempts =
                  users[u].failed_login_attempts + 1
           /\ users'[u].locked_until = now + LockMinutes
           /\ users'[u].locked_until >= users[u].locked_until

\* C36: a failed completeAuthentication for an identity that is already
\* locked still increments failed_login_attempts and resets locked_until to
\* the time of that failure plus 30 minutes, so repeated failed calls, which
\* need no valid challenge, keep moving the end of the lock forward.
C36_FailureExtendsLock == []LockedFailureAnswer /\ [][ExtendsLockStep]_vars

\* C36 witness: a failure beyond the fifth, recorded later than the start
\* of the run while no challenge is stored, has set the end of the lock to
\* the present plus the lock duration
C36_Witness ==
    /\ "alice" \in DOMAIN users
    /\ users["alice"].failed_login_attempts > LockThreshold
    /\ now > 0
    /\ users["alice"].locked_until = now + LockMinutes
    /\ MostRecent("alice", "authentication") = {NoRow}

\* The lock of the identity has elapsed and was not cleared
LockElapsed(user) == user.locked_until # None /\ now >= user.locked_until

\* After the lock has elapsed the counter still holds 5 or more, a begin
\* of an active identity with an active credential is accepted, and one
\* more failure locks the identity again
ElapsedAnswer ==
    \A u \in DOMAIN users :
        LockElapsed(users[u])
        => /\ users[u].failed_login_attempts >= LockThreshold
           /\ users[u].is_active /\ get_user_credentials(u, TRUE) # {}
              => start_authentication(u) = Ok
           /\ record_login_attempt(users[u], FALSE).locked_until > now
           /\ record_login_attempt(users[u], FALSE).failed_login_attempts =
                  users[u].failed_login_attempts + 1

\* The counter is not touched when time passes; it goes down only to 0, by
\* an unlock or by an authentication that counts a use of a credential; and
\* a failure after the lock has elapsed locks the identity again
CounterStep ==
    \A u \in DOMAIN users :
        /\ now' # now => users'[u] = users[u]
        /\ users'[u].failed_login_attempts < users[u].failed_login_attempts
           => /\ users'[u].failed_login_attempts = 0
              /\ \/ users'[u] = unlock_user(users[u])
                       /\ credentials' = credentials
                       /\ challenges' = challenges
                 \/ users'[u] = record_login_attempt(users[u], TRUE)
                       /\ \E i \in 1..Len(credentials) :
                              credentials'[i].usage_count =
                                  credentials[i].usage_count + 1
        /\ LockElapsed(users[u]) /\ streak'[u] = streak[u] + 1
           => /\ users'[u].locked_until = now + LockMinutes
              /\ users'[u].failed_login_attempts > LockThreshold

\* C37: the passing of locked_until does not reset failed_login_attempts:
\* once the lock has elapsed beginAuthentication is accepted again without
\* an unlock, the counter keeps its value of 5 or more, so the very next
\* failed completeAuthentication locks the identity again; only a
\* successful authentication or unlockIdentity brings the counter to 0.
C37_ElapsedLockKeepsCounter == []ElapsedAnswer /\ [][CounterStep]_vars

\* C37 witness: after the lock elapsed, with the counter still at 5 or more,
\* a beginAuthentication was accepted and stored its challenge
C37_Witness ==
    /\ "alice" \in DOMAIN users
    /\ LockElapsed(users["alice"])
    /\ users["alice"].failed_login_attempts >= LockThreshold
    /\ \E c \in challenges :
          /\ c.username = "alice"
          /\ c.challenge_type = "authentication"
          /\ c.created_at >= users["alice"].locked_until

\* The row the query of completeX, run with the handle as given, returns
\* for a challenge: the rows stored under exactly that username
StoredUnder(rows, h, challenge_type) ==
    {c \in rows : c.username = h /\ c.challenge_type = challenge_type}

\* A beginAuthentication or beginRegistration that is accepted for the
\* spelling h stores a challenge that the query of the completing call,
\* given the same h, returns
SameKeyStep ==
    \A h \in Handles :
        /\ /\ start_authentication(h) = Ok
           /\ nextChallenge' = nextChallenge + 1
           /\ challenges' = challenges \cup
                  {create_challenge(nextChallenge, Lower(h), "authentication")}
           => \E c \in StoredUnder(challenges', h, "authentication") :
                  c.id = nextChallenge
        /\ /\ begin_registration(h) = Ok
           /\ nextChallenge' = nextChallenge + 1
           /\ challenges' = challenges \cup
                  {create_challenge(nextChallenge, Lower(h), "registration")}
           => \E c \in StoredUnder(challenges', h, "registration") :
                  c.id = nextChallenge

\* C38: beginX and completeX resolve a handle to the same challenge key: for
\* every spelling h that beginAuthentication or beginRegistration accepts
\* for an identity, spellings with upper-case letters included, a following
\* completeAuthentication or completeRegistration called with the same h
\* finds the challenge that was issued.
C38_SameChallengeKey == [][SameKeyStep]_vars

\* The PIN issued last for the e-mail can no longer be guessed: it was
\* removed by a correct guess or by the expiry test, three guesses were
\* compared against it, or its expiry time has passed
Spent(email) ==
    \/ email \notin DOMAIN verification_pins
    \/ verification_pins[email].attempts >= MaxPinAttempts
    \/ now > verification_pins[email].expires_at

\* C39 as stated: for each issued PIN at most three guesses are compared
\* against it and at most one verify-email call returns success; after three
\* guesses, one correct guess or the expiry every later guess, the correct
\* value included, is rejected until a new PIN is issued.
C39_OneSuccess ==
    \A email \in DOMAIN users_db :
        /\ email \in DOMAIN verification_pins
           => verification_pins[email].attempts <= MaxPinAttempts
        /\ Spent(email)
           => \A pin \in Pins :
                  VerifyEmail(email, pin) \notin {Ok, AlreadyVerified}

\* Once the PIN is spent no guess is compared against it and none verifies
\* the e-mail; the call answers success only for an e-mail verified before
SpentAnswer ==
    \A email \in DOMAIN users_db :
        /\ email \in DOMAIN verification_pins
           => verification_pins[email].attempts <= MaxPinAttempts
        /\ Spent(email)
           => \A pin \in Pins :
                 /\ VerifyEmail(email, pin) # Ok
                 /\ VerifyEmail(email, pin) = AlreadyVerified
                    <=> users_db[email].email_verified
                 /\ email \in DOMAIN verification_pins
                    => /\ email \in DOMAIN pins_after(email, pin)
                          => pins_after(email, pin)[email] =
                                 verification_pins[email]
                       /\ pins_after(email, pin) # verification_pins
                          => now > verification_pins[email].expires_at

\* A guess is counted only against a PIN that is not spent, and the e-mail
\* becomes verified only in a step that removes a PIN that was not spent
PinUseStep ==
    \A email \in DOMAIN users_db :
        /\ /\ email \in DOMAIN verification_pins
           /\ email \in DOMAIN verification_pins'
           /\ verification_pins'[email].attempts =
                  verification_pins[email].attempts + 1
           => ~Spent(email)
        /\ /\ email \in DOMAIN users_db'
           /\ ~users_db[email].email_verified
           /\ users_db'[email].email_verified
           => /\ ~Spent(email)
              /\ email \notin DOMAIN verification_pins'

\* C39 as amended: for each issued PIN at most three guesses are compared
\* against it and at most one verify-email call verifies the e-mail with it;
\* after three guesses, one correct guess or the expiry no later guess is
\* compared against that PIN and none verifies the e-mail until a new PIN is
\* issued, while a verify-email call for an e-mail that is already verified
\* answers success whatever PIN it carries.
C39_PinSingleUse == []SpentAnswer /\ [][PinUseStep]_vars

\* C39 witness: three wrong guesses were compared against an unexpired PIN
\* of an unverified e-mail, and the correct value is now refused
C39_Witness ==
    /\ "alice" \in DOMAIN users_db
    /\ ~users_db["alice"].email_verified
    /\ "alice" \in DOMAIN verification_pins
    /\ verification_pins["alice"].attempts = MaxPinAttempts
    /\ ~(now > verification_pins["alice"].expires_at)
    /\ VerifyEmail("alice", verification_pins["alice"].pin) = ErrPin

\* A login that passes every test before the one of the verified e-mail
\* address: a stored challenge, a registered device, its credential id
PassesDeviceTests(e, ua, c) ==
    /\ e \in DOMAIN challenges_db
    /\ e \in DOMAIN users_db
    /\ DeviceId(e, ua) \in DOMAIN users_db[e].devices
    /\ users_db[e].devices[DeviceId(e, ua)].credential_id = c

\* login_complete answers success only for a verified e-mail address, and
\* "Email not verified" to a login that passes the other tests
VerifiedLoginAnswer ==
    \A e \in Emails, ua \in UserAgents, c \in RawIds :
        /\ LoginComplete(e, ua, c) = Ok => users_db[e].email_verified
        /\ PassesDeviceTests(e, ua, c) /\ ~users_db[e].email_verified
           => LoginComplete(e, ua, c) = ErrNotVerified

\* A session is created only for an e-mail address that is verified when
\* the step is taken; the flag becomes true only by a verify_email with a
\* PIN that is valid; a login refused for the flag removes the challenge
\* and creates no session
VerifiedFlowStep ==
    /\ \A sid \in DOMAIN add_device_sessions' \ DOMAIN add_device_sessions :
           /\ add_device_sessions'[sid].email \in DOMAIN users_db
           /\ users_db[add_device_sessions'[sid].email].email_verified
    /\ \A e \in DOMAIN users_db \cap DOMAIN users_db' :
           ~users_db[e].email_verified /\ users_db'[e].email_verified
           => \E pin \in Pins : is_pin_valid(e, pin) /\ verify_email(e, pin)
    /\ \A e \in DOMAIN users_db' \ DOMAIN users_db :
           ~users_db'[e].email_verified
    /\ \A e \in Emails, ua \in UserAgents, c \in RawIds :
           /\ LoginComplete(e, ua, c) = ErrNotVerified
           /\ login_complete(e, ua, c)
           => /\ e \notin DOMAIN challenges_db'
              /\ add_device_sessions' = add_device_sessions
              /\ nextSession' = nextSession

\* C40: in the flow with e-mail verification login_complete returns success
\* and creates a pairing session only when the account's email_verified flag
\* is true at that moment; the flag becomes true only through verify_email
\* with a valid PIN; and a login_complete on an unverified account consumes
\* the challenge but creates no session.
C40_VerifiedLoginOnly == []VerifiedLoginAnswer /\ [][VerifiedFlowStep]_vars

\* C40 witness: the second challenge issued was removed by a login_complete
\* of an unverified account (no completion succeeded against it) and no
\* session exists
C40_Witness ==
    /\ "alice" \in DOMAIN users_db
    /\ ~users_db["alice"].email_verified
    /\ nextChallenge = 3
    /\ "alice" \notin DOMAIN challenges_db
    /\ 2 \notin DOMAIN uses
    /\ add_device_sessions = <<>>

====
